---- MODULE Spec2Model ----
(***************************************************************************)
(* A model of cc_plugin_ugrid/checker.py: the UGRID compliance checker.    *)
(*                                                                         *)
(* check_run walks the mesh registry (self.meshes) and, for every mesh,    *)
(* calls the six stage methods _check1 .. _check6 found by yield_checks,   *)
(* each of them twice, keeping the second result.  The stages read the     *)
(* Dataset (self.ds), the raw attributes of the mesh variable and the      *)
(* mesh's context record self.meshes[mesh], which some of them also write. *)
(*                                                                         *)
(* Python values are tagged records, so that None, 0, 2 and "2" are four   *)
(* different values.  A Python exception that leaves a method is the exc   *)
(* field of the method's outcome; "none" means the method returned.        *)
(***************************************************************************)
EXTENDS Integers, Sequences, FiniteSets, TLC

VARIABLES
    ds,          \* self.ds: the Dataset, never written
    mesh_attrs,  \* the raw attributes of each mesh variable, in registry order
    meshes,      \* self.meshes: the context record of each mesh, in registry order
    mi,          \* check_run: position of `for mesh in self.meshes`
    ci,          \* check_run: position of `for _, check in self.yield_checks()`
    call,        \* 1: at `_ = check(mesh)`; 2: at `ret_vals.append(check(mesh))`
    ret_vals,    \* check_run's local list of results
    outcome,     \* "running", "returned" (ret_vals was returned) or "raised"
    exc,         \* the exception that left check_run, "none" otherwise
    log,         \* history: the stage invocations that returned, <<mesh, stage>>
    resolved,    \* history: the calls of _validate_nc_shape, <<mesh, cty>>
    first,       \* how the previous call of check_run ended, NoRun for the first call
    done,        \* meshes processed in any order: the results each mesh has so far
    dropped      \* check_run's local `_`: what the latest `_ = check(mesh)` returned

vars == <<ds, mesh_attrs, meshes, mi, ci, call, ret_vals, outcome, exc, log, resolved, first, done,
          dropped>>

\* ------------------------------------------------------------------ bounds

\* The registry holds at most MaxMeshes meshes.
MaxMeshes == 2

\* ----------------------------------------------------------- Python values

None == [ty |-> "NoneType"]

PyInt(n) == [ty |-> "int", int |-> n]

\* A str is held as its words: the list that str.split(" ") returns.  The
\* empty string has the one word "", and "a  b" (two spaces) the words
\* "a", "", "b".
PyStr(w) == [ty |-> "str", words |-> w]

\* A one-word string, the form of every variable and dimension name.
Name(s) == PyStr(<<s>>)

\* netCDF4.Dimension
Dimension(n, s) == [ty |-> "Dimension", name |-> n, size |-> s]

PyList(items) == [ty |-> "list", items |-> items]

\* bool(v): None, 0, "", an empty list and a Dimension of length 0 are false.
Truthy(v) ==
    CASE v.ty = "NoneType" -> FALSE
      [] v.ty = "int" -> v.int # 0
      [] v.ty = "str" -> v.words # <<"">>
      [] v.ty = "Dimension" -> v.size # 0
      [] v.ty = "list" -> v.items # <<>>

\* str.split(" ")
Split(v) == v.words

NoExc == "none"

\* ------------------------------------------------------------ the Dataset

\* The dimension names of the variables the Datasets hold.  A name that is
\* not a dimension of the Dataset itself ("outer" never is) belongs to an
\* enclosing group.
VarDims ==
    [en_reg |-> <<"nedges", "two">>,
     en_swap |-> <<"two", "nedges">>,
     en_sq |-> <<"nedges", "nedges">>,
     en_far |-> <<"nedges", "outer">>,
     fn_reg |-> <<"nfaces", "three">>,
     fn_swap |-> <<"three", "nfaces">>,
     fe_reg |-> <<"nfaces", "maxnumnodesperface">>,
     lon |-> <<"nnodes">>,
     lat |-> <<"nnodes">>,
     edge_x |-> <<"nedges">>,
     edge_y |-> <<"nedges">>,
     face_x |-> <<"nfaces">>]

DimNames == {"nedges", "nfaces", "two", "three", "maxnumnodesperface", "nnodes", "outer"}

SizesWide ==
    [nedges |-> 4, nfaces |-> 5, two |-> 2, three |-> 3,
     maxnumnodesperface |-> 4, nnodes |-> 6, outer |-> 2]

\* A mesh so small that the count dimensions have the fixed sizes 2 and 3.
SizesTiny ==
    [nedges |-> 2, nfaces |-> 3, two |-> 2, three |-> 3,
     maxnumnodesperface |-> 3, nnodes |-> 3, outer |-> 2]

\* A Dataset whose edge dimension has no entries yet.
SizesNoEdges ==
    [nedges |-> 0, nfaces |-> 5, two |-> 2, three |-> 3,
     maxnumnodesperface |-> 4, nnodes |-> 6, outer |-> 2]

\* The Dataset with the variables of VarDims, the sizes sz and the
\* dimensions `defined`.
MkDataset(sz, defined) ==
    [variables |->
        [v \in DOMAIN VarDims |->
            [dimensions |-> VarDims[v],
             shape |-> [k \in DOMAIN VarDims[v] |-> sz[VarDims[v][k]]]]],
     dimensions |-> [d \in defined |-> Dimension(d, sz[d])]]

LocalDims == DimNames \ {"outer"}

Datasets ==
    {MkDataset(SizesWide, LocalDims),
     MkDataset(SizesWide, LocalDims \ {"maxnumnodesperface"}),
     MkDataset(SizesWide, LocalDims \ {"nedges", "nfaces"}),
     MkDataset(SizesTiny, LocalDims),
     MkDataset(SizesNoEdges, LocalDims)}

\* `key in self.ds.variables`: a name is a one-word string.
InVariables(d, v) == v.ty = "str" /\ Len(v.words) = 1 /\ v.words[1] \in DOMAIN d.variables

\* self.ds.variables[key], for a key that is in it
Variable(d, v) == d.variables[v.words[1]]

InDimensions(d, v) == v.ty = "str" /\ Len(v.words) = 1 /\ v.words[1] \in DOMAIN d.dimensions

\* ------------------------------------------------ mesh variables, registry

MeshAttrs ==
    {"topology_dimension", "node_coordinates", "edge_node_connectivity",
     "face_node_connectivity", "volume_node_connectivity",
     "edge_face_connectivity", "face_edge_connectivity", "face_face_connectivity",
     "edge_dimension", "face_dimension", "edge_coordinates", "face_coordinates"}

CtxKeys == MeshAttrs \cup {"nedges", "nfaces"}

\* The raw attributes of a mesh variable; None stands for an attribute the
\* variable does not have.
MeshVar(td, nc, enc, fnc, vnc, efc, fec, ffc, ed, fd, ec, fc) ==
    [topology_dimension |-> td, node_coordinates |-> nc,
     edge_node_connectivity |-> enc, face_node_connectivity |-> fnc,
     volume_node_connectivity |-> vnc, edge_face_connectivity |-> efc,
     face_edge_connectivity |-> fec, face_face_connectivity |-> ffc,
     edge_dimension |-> ed, face_dimension |-> fd,
     edge_coordinates |-> ec, face_coordinates |-> fc]

\* mesh.getncattr(a) and mesh.a raise AttributeError exactly when ~HasNcAttr.
HasNcAttr(mesh, a) == mesh[a] # None

GetNcAttr(mesh, a) == mesh[a]

\* The context a mesh starts with: its raw attribute values, None for an
\* absent attribute and for the keys that the stages derive.
InitialContext(mesh) ==
    [k \in CtxKeys |-> IF k \in DOMAIN mesh THEN mesh[k] ELSE None]

\* ------------------------------------------------------------- results

\* A message: the text of the source's string literal, and the values that
\* the f-string or format() call puts into it, in order.
Msg(text, args) == [text |-> text, args |-> args]

\* make_result(level, score, out_of, desc, messages): a CheckResult
MakeResult(level, score, out_of, desc, messages) ==
    [level |-> level, score |-> score, out_of |-> out_of,
     desc |-> desc, msgs |-> messages]

NoResult == MakeResult("none", 0, 0, "", <<>>)

\* The outcome of a stage: it returned res, or exception exc left it; ctx is
\* the mesh context it leaves behind either way, calls the connectivity
\* kinds it ran _validate_nc_shape for.
Returned(res, ctx, calls) == [exc |-> NoExc, res |-> res, ctx |-> ctx, calls |-> calls]

Raised(e, ctx, calls) == [exc |-> e, res |-> NoResult, ctx |-> ctx, calls |-> calls]

Desc1 == "The topology dimension is the highest dimension of the data"

Desc2 == "Interconnectivity: connection between elements in the mesh"

Desc3 == "Node coordinates point to aux coordinate variables representing locations of nodes"

Desc4 == "array of faces sharing the same edge (optional)"

Desc5 == "array pointing to every index of each edge of each face (optional)"

Desc6 == "array of every face sharing a face with any other face (optional)"

DescRun == "Run UGRID checks if mesh variables are present in the data"

\* ------------------------------------------------ stage 1: topology dimension

\* Check1TopologyDim with the range test replaced by the presence test.
Check1AnyPresentValue(d, mesh, ctx) ==
    LET td == ctx["topology_dimension"]
        m1 == IF ~Truthy(td)
              THEN <<Msg("Mesh does not contain the required attribute \"topology_dimension\"", <<>>)>>
              ELSE <<>>
    IN  Returned(MakeResult("HIGH", IF Truthy(td) THEN 1 ELSE 0, 1, Desc1, m1), ctx, <<>>)

Check1TopologyDim(d, mesh, ctx) ==
    LET td == ctx["topology_dimension"]
        m1 == IF ~Truthy(td)
              THEN <<Msg("Mesh does not contain the required attribute \"topology_dimension\"", <<>>)>>
              ELSE <<>>
        ok == td \in {PyInt(1), PyInt(2), PyInt(3)}
        m2 == IF ~ok
              THEN <<Msg("Invalid topology_dimension \"{}\" of type \"{}\"", <<td, Name(td.ty)>>)>>
              ELSE <<>>
    IN  Returned(MakeResult("HIGH", IF ok THEN 1 ELSE 0, 1, Desc1, m1 \o m2), ctx, <<>>)

\* ------------------------------------------------- the shape resolver

Conns == <<"edge_node_connectivity", "face_node_connectivity", "volume_node_connectivity">>

ConnSet == {Conns[i] : i \in DOMAIN Conns}

\* The outcome of _validate_nc_shape: (valid, order) returned, or exc raised.
ShapeReturned(valid, order, ctx) == [exc |-> NoExc, valid |-> valid, order |-> order, ctx |-> ctx]

ShapeRaised(e, ctx) == [exc |-> e, valid |-> FALSE, order |-> "None", ctx |-> ctx]

\* ValidateNcShape with the two orientation tests in the other order.
ValidateNcShapeNonstdFirst(d, mesh, ctx, cty) ==
    IF cty \notin ConnSet THEN ShapeReturned(FALSE, "None", ctx)
    ELSE IF ~HasNcAttr(mesh, cty) THEN ShapeReturned(FALSE, "None", ctx)
    ELSE IF ~InVariables(d, GetNcAttr(mesh, cty)) THEN ShapeRaised("AttributeError", ctx)
    ELSE LET array == Variable(d, GetNcAttr(mesh, cty)) IN
    IF Len(array.dimensions) # 2 THEN ShapeRaised("ValueError", ctx)
    ELSE IF \E k \in 1..2 : array.dimensions[k] \notin DOMAIN d.dimensions
         THEN ShapeRaised("KeyError", ctx)
    ELSE LET dim1 == d.dimensions[array.dimensions[1]]
             dim2 == d.dimensions[array.dimensions[2]]
             count == IF cty = "edge_node_connectivity" THEN "nedges" ELSE "nfaces"
             fixed == IF cty = "edge_node_connectivity" THEN 2 ELSE 3
         IN
    IF cty = "volume_node_connectivity" THEN ShapeRaised("NotImplementedError", ctx)
    ELSE IF dim1.size = fixed /\ dim2.name = count
         THEN ShapeReturned(TRUE, "nonstd", [ctx EXCEPT ![count] = d.dimensions[count]])
    ELSE IF dim1.name = count /\ dim2.size = fixed
         THEN ShapeReturned(TRUE, "regular", [ctx EXCEPT ![count] = d.dimensions[count]])
    ELSE ShapeReturned(FALSE, "None", ctx)

\* ValidateNcShape reporting a volume connectivity as invalid instead of
\* raising NotImplementedError.
ValidateNcShapeVolumeInvalid(d, mesh, ctx, cty) ==
    IF cty \notin ConnSet THEN ShapeReturned(FALSE, "None", ctx)
    ELSE IF ~HasNcAttr(mesh, cty) THEN ShapeReturned(FALSE, "None", ctx)
    ELSE IF ~InVariables(d, GetNcAttr(mesh, cty)) THEN ShapeRaised("AttributeError", ctx)
    ELSE LET array == Variable(d, GetNcAttr(mesh, cty)) IN
    IF Len(array.dimensions) # 2 THEN ShapeRaised("ValueError", ctx)
    ELSE IF \E k \in 1..2 : array.dimensions[k] \notin DOMAIN d.dimensions
         THEN ShapeRaised("KeyError", ctx)
    ELSE LET dim1 == d.dimensions[array.dimensions[1]]
             dim2 == d.dimensions[array.dimensions[2]]
             count == IF cty = "edge_node_connectivity" THEN "nedges" ELSE "nfaces"
             fixed == IF cty = "edge_node_connectivity" THEN 2 ELSE 3
         IN
    IF cty = "volume_node_connectivity" THEN ShapeReturned(FALSE, "None", ctx)
    ELSE IF dim1.name = count /\ dim2.size = fixed
         THEN ShapeReturned(TRUE, "regular", [ctx EXCEPT ![count] = d.dimensions[count]])
    ELSE IF dim1.size = fixed /\ dim2.name = count
         THEN ShapeReturned(TRUE, "nonstd", [ctx EXCEPT ![count] = d.dimensions[count]])
    ELSE ShapeReturned(FALSE, "None", ctx)

ValidateNcShape(d, mesh, ctx, cty) ==
    IF cty \notin ConnSet THEN ShapeReturned(FALSE, "None", ctx)
    ELSE IF ~HasNcAttr(mesh, cty) THEN ShapeReturned(FALSE, "None", ctx)
    ELSE IF ~InVariables(d, GetNcAttr(mesh, cty))
         THEN ShapeRaised("AttributeError", ctx)   \* variables.get() gave None
    ELSE LET array == Variable(d, GetNcAttr(mesh, cty)) IN
    IF Len(array.dimensions) # 2 THEN ShapeRaised("ValueError", ctx)
    ELSE IF \E k \in 1..2 : array.dimensions[k] \notin DOMAIN d.dimensions
         THEN ShapeRaised("KeyError", ctx)
    ELSE LET dim1 == d.dimensions[array.dimensions[1]]
             dim2 == d.dimensions[array.dimensions[2]]
             count == IF cty = "edge_node_connectivity" THEN "nedges" ELSE "nfaces"
             fixed == IF cty = "edge_node_connectivity" THEN 2 ELSE 3
         IN
    IF dim1.name \notin DOMAIN d.dimensions \/ dim2.name \notin DOMAIN d.dimensions
    THEN ShapeReturned(FALSE, "None", ctx)
    ELSE IF cty = "volume_node_connectivity" THEN ShapeRaised("NotImplementedError", ctx)
    ELSE IF dim1.name = count /\ dim2.size = fixed
         THEN ShapeReturned(TRUE, "regular", [ctx EXCEPT ![count] = d.dimensions[count]])
    ELSE IF dim1.size = fixed /\ dim2.name = count
         THEN ShapeReturned(TRUE, "nonstd", [ctx EXCEPT ![count] = d.dimensions[count]])
    ELSE ShapeReturned(FALSE, "None", ctx)

\* ---------------------------------------- the dimension-requirement resolver

\* CheckEdgeFaceDim reporting success for a defined dimension without
\* writing it into the context.
CheckEdgeFaceDimNotWritten(d, mesh, ctx, dim_var) ==
    IF ~HasNcAttr(mesh, dim_var)
    THEN [exists |-> FALSE,
          msg |-> Msg("Mesh does not contain {}, required when connectivity in non-standard order.",
                      <<Name(dim_var)>>),
          ctx |-> ctx]
    ELSE IF ~InDimensions(d, GetNcAttr(mesh, dim_var))
    THEN [exists |-> FALSE,
          msg |-> Msg("Edge dimension defined in mesh, not defined in dataset dimensions.", <<>>),
          ctx |-> ctx]
    ELSE [exists |-> TRUE, msg |-> None, ctx |-> ctx]

\* __check_edge_face_dim__: (exists, msg) and the context it leaves.
CheckEdgeFaceDim(d, mesh, ctx, dim_var) ==
    IF ~HasNcAttr(mesh, dim_var)
    THEN [exists |-> FALSE,
          msg |-> Msg("Mesh does not contain {}, required when connectivity in non-standard order.",
                      <<Name(dim_var)>>),
          ctx |-> ctx]
    ELSE IF ~InDimensions(d, GetNcAttr(mesh, dim_var))
    THEN [exists |-> FALSE,
          msg |-> Msg("Edge dimension defined in mesh, not defined in dataset dimensions.", <<>>),
          ctx |-> ctx]
    ELSE [exists |-> TRUE,
          msg |-> None,
          ctx |-> [ctx EXCEPT ![dim_var] = d.dimensions[GetNcAttr(mesh, dim_var).words[1]]]]

DimMap == [edge_node_connectivity |-> "edge_dimension", face_node_connectivity |-> "face_dimension"]

CheckNonstdOrderDims(d, mesh, ctx, cty) ==
    IF cty \notin DOMAIN DimMap THEN Raised("KeyError", ctx, <<>>)
    ELSE LET e == CheckEdgeFaceDim(d, mesh, ctx, DimMap[cty])
             desc == "{} required when dimension orderomg of {} vars is non-standard order."
         IN  Returned(MakeResult("MEDIUM", IF e.exists THEN 1 ELSE 0, 1, desc,
                                 IF e.exists THEN <<>> ELSE <<e.msg>>),
                      e.ctx, <<>>)

\* ------------------------------------------- the edge/face coordinate check

CoordMap == [edge_node_connectivity |-> "edge_coordinates", face_node_connectivity |-> "face_coordinates"]

VarMap == [edge_coordinates |-> "nedges", face_coordinates |-> "nfaces"]

DescCoords == "Edge coordinates point to aux coordinate variables representing locations of edges (usually midpoint)"

\* The loop `for coord in coords.split(" ")`, from its i-th name on.
RECURSIVE CoordsLoop(_, _, _, _, _, _, _)
CoordsLoop(d, ctx, c, coords, i, score, messages) ==
    IF i > Len(coords)
    THEN Returned(MakeResult("LOW", score, 1, DescCoords, messages), ctx, <<>>)
    ELSE IF coords[i] \notin DOMAIN d.variables THEN Raised("KeyError", ctx, <<>>)
    ELSE IF Len(d.variables[coords[i]].shape) = 0 THEN Raised("TypeError", ctx, <<>>)
    ELSE IF VarMap[c] \notin DOMAIN d.dimensions THEN Raised("KeyError", ctx, <<>>)
    ELSE IF d.variables[coords[i]].shape[1] # d.dimensions[VarMap[c]].size
         THEN CoordsLoop(d, ctx, c, coords, i + 1, score,
                         Append(messages, Msg("{} should have length of {}", <<Name(c), Name(VarMap[c])>>)))
    ELSE CoordsLoop(d, ctx, c, coords, i + 1, score + 1, messages)

CheckEdgeFaceCoords(d, mesh, ctx, cty) ==
    IF ~Truthy(ctx[cty])
    THEN Returned(MakeResult("LOW", 0, 1, DescCoords, <<Msg("No {}?", <<Name(cty)>>)>>), ctx, <<>>)
    ELSE IF cty \notin DOMAIN CoordMap THEN Raised("KeyError", ctx, <<>>)
    ELSE IF ~HasNcAttr(mesh, CoordMap[cty])
    THEN Returned(MakeResult("LOW", 0, 1, DescCoords, <<Msg("Optional attribute, not required", <<>>)>>),
                  ctx, <<>>)
    ELSE CoordsLoop(d, ctx, CoordMap[cty], Split(GetNcAttr(mesh, CoordMap[cty])), 1, 0, <<>>)

\* ------------------------------------------ stage 2: connectivity attributes

\* The body of `for _conn in conns` for one _conn; st holds the locals
\* score, out_of and messages, the context and the resolver calls so far,
\* and exc once an exception has left the loop.
Check2Conn(d, mesh, st, conn) ==
    IF st.exc # NoExc \/ ~Truthy(st.ctx[conn]) THEN st
    ELSE LET v == ValidateNcShape(d, mesh, st.ctx, conn)
             st1 == [st EXCEPT !.out_of = @ + 1, !.calls = Append(@, conn)]
         IN
    IF v.exc # NoExc THEN [st1 EXCEPT !.exc = v.exc, !.ctx = v.ctx]
    ELSE LET n == IF v.order = "nonstd"
                  THEN CheckNonstdOrderDims(d, mesh, v.ctx, conn)
                  ELSE Returned(NoResult, v.ctx, <<>>)
         IN
    IF n.exc # NoExc THEN [st1 EXCEPT !.exc = n.exc, !.ctx = n.ctx]
    ELSE LET st2 == IF v.valid
                    THEN [st1 EXCEPT !.score = @ + 1, !.ctx = n.ctx]
                    ELSE [st1 EXCEPT !.ctx = n.ctx,
                                     !.msgs = Append(@, Msg("Dataset contains invalid \"{}\" array",
                                                            <<Name(conn)>>))]
             c == CheckEdgeFaceCoords(d, mesh, n.ctx, conn)
         IN
    IF c.exc # NoExc THEN [st2 EXCEPT !.exc = c.exc] ELSE st2

\* Check2ConnectivityAttrs without the return for an absent mandatory attribute.
Check2NoShortCircuit(d, mesh, ctx) ==
    LET td == ctx["topology_dimension"] IN
    IF ~Truthy(td)
    THEN Returned(MakeResult("HIGH", 0, 1, Desc2,
             <<Msg("Mesh does not contain the required attribute \"topology_dimension\", therefore any defined connectivity cannot be verified.", <<>>)>>),
             ctx, <<>>)
    ELSE LET st0 == [exc |-> NoExc, score |-> 0,
                     out_of |-> IF \E k \in 1..3 : ~Truthy(ctx[Conns[k]]) /\ td = PyInt(k) THEN 1 ELSE 0,
                     msgs |-> <<>>, ctx |-> ctx, calls |-> <<>>]
             st == Check2Conn(d, mesh, Check2Conn(d, mesh, Check2Conn(d, mesh, st0, Conns[1]), Conns[2]), Conns[3])
         IN  IF st.exc # NoExc THEN Raised(st.exc, st.ctx, st.calls)
             ELSE Returned(MakeResult("HIGH", st.score, st.out_of, Desc2, st.msgs), st.ctx, st.calls)

Check2ConnectivityAttrs(d, mesh, ctx) ==
    LET td == ctx["topology_dimension"] IN
    IF ~Truthy(td)
    THEN Returned(MakeResult("HIGH", 0, 1, Desc2,
             <<Msg("Mesh does not contain the required attribute \"topology_dimension\", therefore any defined connectivity cannot be verified.", <<>>)>>),
             ctx, <<>>)
    ELSE IF \E k \in 1..3 : ~Truthy(ctx[Conns[k]]) /\ td = PyInt(k)
    THEN Returned(MakeResult("HIGH", 0, 1, Desc2, <<>>), ctx, <<>>)
    ELSE LET st0 == [exc |-> NoExc, score |-> 0, out_of |-> 0, msgs |-> <<>>,
                     ctx |-> ctx, calls |-> <<>>]
             st == Check2Conn(d, mesh, Check2Conn(d, mesh, Check2Conn(d, mesh, st0, Conns[1]), Conns[2]), Conns[3])
         IN  IF st.exc # NoExc THEN Raised(st.exc, st.ctx, st.calls)
             ELSE Returned(MakeResult("HIGH", st.score, st.out_of, Desc2, st.msgs), st.ctx, st.calls)

\* ------------------------------------------------ stage 3: node coordinates

\* The names of ncoords that are not Dataset variables, in order.
Unresolved(d, ncoords) == SelectSeq(ncoords, LAMBDA nc : nc \notin DOMAIN d.variables)

\* Check3NcoordsExist scoring every listed name, a Dataset variable or not.
Check3EveryNameScores(d, mesh, ctx) ==
    LET td == ctx["topology_dimension"]
        ctx0 == [ctx EXCEPT !["node_coordinates"] = PyList(<<>>)]
    IN
    IF ~Truthy(td)
    THEN Returned(MakeResult("HIGH", 0, 1, Desc3,
                     <<Msg("Failed because no topology dimension exists", <<>>)>>), ctx0, <<>>)
    ELSE IF ~HasNcAttr(mesh, "node_coordinates")
    THEN Returned(MakeResult("HIGH", 0, 1, Desc3,
                     <<Msg("This mesh has no node coordinate variables", <<>>)>>), ctx0, <<>>)
    ELSE LET ncoords == Split(GetNcAttr(mesh, "node_coordinates"))
             missing == Unresolved(d, ncoords)
         IN
    IF PyInt(Len(ncoords)) = td
    THEN Returned(MakeResult("HIGH", Len(ncoords), Len(ncoords), Desc3,
                     [k \in 1..Len(missing) |->
                         Msg("Node coordinate \"{}\" in mesh but not in variables", <<Name(missing[k])>>)]),
                  [ctx EXCEPT !["node_coordinates"] = PyList(missing)], <<>>)
    ELSE Returned(MakeResult("HIGH", 0, 1, Desc3,
                     <<Msg("The size of mesh's node coordinates does not match the topology dimension ({})",
                           <<td>>)>>), ctx0, <<>>)

\* Check3NcoordsExist starting from a context rebuilt from the raw attributes
\* of the mesh variable, which have no derived keys.
Check3ContextRebuilt(d, mesh, ctx) ==
    LET raw == [ctx EXCEPT !["nedges"] = None, !["nfaces"] = None]
        td == raw["topology_dimension"]
        ctx0 == [raw EXCEPT !["node_coordinates"] = PyList(<<>>)]
    IN
    IF ~Truthy(td)
    THEN Returned(MakeResult("HIGH", 0, 1, Desc3,
                     <<Msg("Failed because no topology dimension exists", <<>>)>>), ctx0, <<>>)
    ELSE IF ~HasNcAttr(mesh, "node_coordinates")
    THEN Returned(MakeResult("HIGH", 0, 1, Desc3,
                     <<Msg("This mesh has no node coordinate variables", <<>>)>>), ctx0, <<>>)
    ELSE LET ncoords == Split(GetNcAttr(mesh, "node_coordinates"))
             missing == Unresolved(d, ncoords)
         IN
    IF PyInt(Len(ncoords)) = td
    THEN Returned(MakeResult("HIGH", Len(ncoords) - Len(missing), Len(ncoords), Desc3,
                     [k \in 1..Len(missing) |->
                         Msg("Node coordinate \"{}\" in mesh but not in variables", <<Name(missing[k])>>)]),
                  [raw EXCEPT !["node_coordinates"] = PyList(missing)], <<>>)
    ELSE Returned(MakeResult("HIGH", 0, 1, Desc3,
                     <<Msg("The size of mesh's node coordinates does not match the topology dimension ({})",
                           <<td>>)>>), ctx0, <<>>)

\* Check3NcoordsExist without the reset of line 146: the names that are no
\* Dataset variables are appended to the list an earlier call left.
Check3ListKept(d, mesh, ctx) ==
    LET td == ctx["topology_dimension"]
        kept == IF ctx["node_coordinates"].ty = "list" THEN ctx["node_coordinates"].items ELSE <<>>
        ctx0 == [ctx EXCEPT !["node_coordinates"] = PyList(kept)]
    IN
    IF ~Truthy(td)
    THEN Returned(MakeResult("HIGH", 0, 1, Desc3,
                     <<Msg("Failed because no topology dimension exists", <<>>)>>), ctx0, <<>>)
    ELSE IF ~HasNcAttr(mesh, "node_coordinates")
    THEN Returned(MakeResult("HIGH", 0, 1, Desc3,
                     <<Msg("This mesh has no node coordinate variables", <<>>)>>), ctx0, <<>>)
    ELSE LET ncoords == Split(GetNcAttr(mesh, "node_coordinates"))
             missing == Unresolved(d, ncoords)
         IN
    IF PyInt(Len(ncoords)) = td
    THEN Returned(MakeResult("HIGH", Len(ncoords) - Len(missing), Len(ncoords), Desc3,
                     [k \in 1..Len(missing) |->
                         Msg("Node coordinate \"{}\" in mesh but not in variables", <<Name(missing[k])>>)]),
                  [ctx EXCEPT !["node_coordinates"] = PyList(kept \o missing)], <<>>)
    ELSE Returned(MakeResult("HIGH", 0, 1, Desc3,
                     <<Msg("The size of mesh's node coordinates does not match the topology dimension ({})",
                           <<td>>)>>), ctx0, <<>>)

Check3NcoordsExist(d, mesh, ctx) ==
    LET td == ctx["topology_dimension"]
        ctx0 == [ctx EXCEPT !["node_coordinates"] = PyList(<<>>)]
    IN
    IF ~Truthy(td)
    THEN Returned(MakeResult("HIGH", 0, 1, Desc3,
                     <<Msg("Failed because no topology dimension exists", <<>>)>>), ctx0, <<>>)
    ELSE IF ~HasNcAttr(mesh, "node_coordinates")
    THEN Returned(MakeResult("HIGH", 0, 1, Desc3,
                     <<Msg("This mesh has no node coordinate variables", <<>>)>>), ctx0, <<>>)
    ELSE LET ncoords == Split(GetNcAttr(mesh, "node_coordinates"))
             missing == Unresolved(d, ncoords)
         IN
    IF PyInt(Len(ncoords)) = td
    THEN Returned(MakeResult("HIGH", Len(ncoords) - Len(missing), Len(ncoords), Desc3,
                     [k \in 1..Len(missing) |->
                         Msg("Node coordinate \"{}\" in mesh but not in variables", <<Name(missing[k])>>)]),
                  [ctx EXCEPT !["node_coordinates"] = PyList(missing)], <<>>)
    ELSE Returned(MakeResult("HIGH", 0, 1, Desc3,
                     <<Msg("The size of mesh's node coordinates does not match the topology dimension ({})",
                           <<td>>)>>), ctx0, <<>>)

\* ------------------------------------------ stage 4: edge_face_connectivity

\* Check4EdgeFaceConn without `out_of += 1` for a present attribute.
Check4OutOfNotCounted(d, mesh, ctx) ==
    IF ~Truthy(ctx["nedges"]) \/ ~Truthy(ctx["nfaces"])
    THEN Returned(MakeResult("LOW", 0, 0, Desc4, <<>>), ctx, <<>>)
    ELSE IF ~HasNcAttr(mesh, "edge_face_connectivity")
    THEN Returned(MakeResult("LOW", 0, 0, Desc4,
                     <<Msg("No edge_face_connectivity (optional)", <<>>)>>), ctx, <<>>)
    ELSE LET efc == GetNcAttr(mesh, "edge_face_connectivity") IN
    IF ~InVariables(d, efc) THEN Raised("KeyError", ctx, <<>>)
    ELSE LET shape == Variable(d, efc).shape IN
    IF Len(shape) # 2 THEN Raised("ValueError", ctx, <<>>)
    ELSE IF shape[1] # ctx["nedges"].size \/ shape[2] # 2
    THEN Returned(MakeResult("LOW", 0, 0, Desc4,
                     <<Msg("Incorrect shape ({}, {}) of edge_face_connectivity array",
                           <<PyInt(shape[1]), PyInt(shape[2])>>)>>), ctx, <<>>)
    ELSE Returned(MakeResult("LOW", 1, 0, Desc4, <<>>), ctx, <<>>)

Check4EdgeFaceConn(d, mesh, ctx) ==
    IF ~Truthy(ctx["nedges"]) \/ ~Truthy(ctx["nfaces"])
    THEN Returned(MakeResult("LOW", 0, 0, Desc4, <<>>), ctx, <<>>)
    ELSE IF ~HasNcAttr(mesh, "edge_face_connectivity")
    THEN Returned(MakeResult("LOW", 0, 0, Desc4,
                     <<Msg("No edge_face_connectivity (optional)", <<>>)>>), ctx, <<>>)
    ELSE LET efc == GetNcAttr(mesh, "edge_face_connectivity") IN
    IF ~InVariables(d, efc) THEN Raised("KeyError", ctx, <<>>)
    ELSE LET shape == Variable(d, efc).shape IN
    IF Len(shape) # 2 THEN Raised("ValueError", ctx, <<>>)
    ELSE IF shape[1] # ctx["nedges"].size \/ shape[2] # 2
    THEN Returned(MakeResult("LOW", 0, 1, Desc4,
                     <<Msg("Incorrect shape ({}, {}) of edge_face_connectivity array",
                           <<PyInt(shape[1]), PyInt(shape[2])>>)>>), ctx, <<>>)
    ELSE Returned(MakeResult("LOW", 1, 1, Desc4, <<>>), ctx, <<>>)

\* ------------------- stages 5 and 6: face_edge and face_face connectivity

\* __check_fec_ffc__: (valid, _out_of, m) returned, or exc raised.
FecFfc(e, valid, out_of, m) == [exc |-> e, valid |-> valid, out_of |-> out_of, msg |-> m]

CheckFecFfc(d, mesh, ctx, cty) ==
    IF ~Truthy(ctx["nfaces"])
    THEN FecFfc(NoExc, FALSE, 0, Msg("Number of faces (nfaces) not defined", <<>>))
    ELSE IF ~HasNcAttr(mesh, cty)
    THEN FecFfc(NoExc, FALSE, 0, Msg("No {} (optional)", <<Name(cty)>>))
    ELSE IF ~InVariables(d, GetNcAttr(mesh, cty)) THEN FecFfc("KeyError", FALSE, 1, None)
    ELSE LET shape == Variable(d, GetNcAttr(mesh, cty)).shape IN
    IF Len(shape) # 2 THEN FecFfc("ValueError", FALSE, 1, None)
    ELSE IF shape[1] # ctx["nfaces"].size
    THEN FecFfc(NoExc, FALSE, 1,
                Msg("Incorrect shape ({}, {}) of {} array", <<PyInt(shape[1]), PyInt(shape[2]), Name(cty)>>))
    \* mnpf is None when the Dataset has no such dimension: mnpf.size raises
    ELSE IF "maxnumnodesperface" \notin DOMAIN d.dimensions
    THEN FecFfc("AttributeError", FALSE, 1, None)
    ELSE IF shape[2] # d.dimensions["maxnumnodesperface"].size
    THEN FecFfc(NoExc, FALSE, 1,
                Msg("Incorrect shape ({}, {}) of {} array", <<PyInt(shape[1]), PyInt(shape[2]), Name(cty)>>))
    ELSE FecFfc(NoExc, TRUE, 1, Msg("", <<>>))

Check5FaceEdgeConn(d, mesh, ctx) ==
    LET r == CheckFecFfc(d, mesh, ctx, "face_edge_connectivity") IN
    IF r.exc # NoExc THEN Raised(r.exc, ctx, <<>>)
    ELSE Returned(MakeResult("LOW", IF r.valid THEN 1 ELSE 0, r.out_of, Desc5, <<r.msg>>), ctx, <<>>)

Check6FaceFaceConn(d, mesh, ctx) ==
    LET r == CheckFecFfc(d, mesh, ctx, "face_face_connectivity") IN
    IF r.exc # NoExc THEN Raised(r.exc, ctx, <<>>)
    ELSE Returned(MakeResult("LOW", IF r.valid THEN 1 ELSE 0, r.out_of, Desc6, <<r.msg>>), ctx, <<>>)

\* ------------------------------------------------------------ yield_checks

\* A method name: head is its characters up to the first digit (all of it if
\* it has none), digit that digit (0 if none), rest what follows.
Method(head, digit, rest) == [head |-> head, digit |-> digit, rest |-> rest]

\* dir(self): the names of the checker's methods.
MethodNames ==
    {Method("_check", 1, "_topology_dim"), Method("_check", 2, "_connectivity_attrs"),
     Method("_check", 3, "_ncoords_exist"), Method("_check", 4, "_edge_face_conn"),
     Method("_check", 5, "_face_edge_conn"), Method("_check", 6, "_face_face_conn"),
     Method("check_run", 0, ""), Method("yield_checks", 0, ""),
     Method("__check_edge_face_coords__", 0, ""), Method("__check_fec_ffc__", 0, ""),
     Method("__check_nonstd_order_dims__", 0, ""), Method("__check_edge_face_dim__", 0, ""),
     Method("_validate_nc_shape", 0, ""), Method("__init__", 0, "")}

\* name.startswith("_check")
StartsWithCheck(m) == m.head = "_check"

\* sorted(): names with the same head "_check" compare by the digit after it.
RECURSIVE Sorted(_)
Sorted(S) ==
    IF S = {} THEN <<>>
    ELSE LET least == CHOOSE m \in S : \A o \in S : m.digit <= o.digit
         IN  <<least>> \o Sorted(S \ {least})

\* yield_checks without sorted(): the names come in some other order.
YieldChecksUnsorted ==
    LET s == Sorted({m \in MethodNames : StartsWithCheck(m)})
    IN  [k \in DOMAIN s |-> s[Len(s) + 1 - k]]

YieldChecks == Sorted({m \in MethodNames : StartsWithCheck(m)})

\* ------------------------------------------------------------------ inputs

TopologyDimensions == {None, PyInt(0), PyInt(1), PyInt(2), PyInt(3), PyInt(4), Name("2")}

\* The mesh variables of a well-formed two-dimensional mesh, varied in their
\* connectivity attributes, ...
ConnectivityMeshes ==
    {MeshVar(td, PyStr(<<"lon", "lat">>), enc, fnc, vnc,
             Name("en_reg"), Name("fe_reg"), Name("fe_reg"), None, None, None, None) :
        td \in TopologyDimensions,
        enc \in {None, Name("en_reg"), Name("en_swap"), Name("en_sq"), Name("en_far"),
                 Name("fn_reg"), Name("nope"), Name("lon")},
        fnc \in {None, Name("fn_reg"), Name("fn_swap"), Name("en_reg"), Name("nope")},
        vnc \in {None, Name("en_reg")}}

\* ... in the dimension attributes that a non-standard order asks for, ...
DimensionMeshes ==
    {MeshVar(PyInt(2), PyStr(<<"lon", "lat">>), enc, fnc, None,
             None, None, None, ed, fd, None, None) :
        enc \in {Name("en_reg"), Name("en_swap")},
        fnc \in {Name("fn_reg"), Name("fn_swap")},
        ed \in {None, Name("nedges"), Name("outer")},
        fd \in {None, Name("nfaces"), Name("outer")}}

\* ... in the edge and face coordinates, ...
CoordinateMeshes ==
    {MeshVar(td, PyStr(<<"lon", "lat">>), enc, fnc, None,
             None, None, None, None, None, ec, fc) :
        td \in {PyInt(1), PyInt(2)},
        enc \in {Name("en_reg"), Name("en_swap"), Name("fn_reg")},
        fnc \in {None, Name("fn_reg")},
        ec \in {None, Name("edge_x"), PyStr(<<"edge_x", "edge_y">>), PyStr(<<"edge_x", "lon">>),
               Name("nope")},
        fc \in {None, Name("face_x"), Name("lon")}}

\* ... in the node coordinates, ...
NodeCoordinateMeshes ==
    {MeshVar(td, nc, Name("en_reg"), Name("fn_reg"), None,
             None, None, None, None, None, None, None) :
        td \in TopologyDimensions,
        nc \in {None, Name("lon"), PyStr(<<"lon", "lat">>), PyStr(<<"lon", "nope">>),
                PyStr(<<"lon", "lat", "lat">>), PyStr(<<"lon", "", "lat">>)}}

\* ... and in the optional connectivity arrays of stages 4, 5 and 6.
OptionalArrays == {None, Name("en_reg"), Name("fe_reg"), Name("nope"), Name("lon")}

OptionalMeshes ==
    {MeshVar(PyInt(2), PyStr(<<"lon", "lat">>), enc, fnc, None,
             efc, fec, ffc, None, None, None, None) :
        enc \in {None, Name("en_reg"), Name("en_swap"), Name("fn_reg")},
        fnc \in {None, Name("fn_reg"), Name("en_reg")},
        efc \in OptionalArrays,
        fec \in OptionalArrays,
        ffc \in {None, Name("fe_reg")}}
    \cup
    {MeshVar(PyInt(2), PyStr(<<"lon", "lat">>), Name("en_reg"), fnc, None,
             Name("en_reg"), Name("fe_reg"), ffc, None, None, None, None) :
        fnc \in {None, Name("fn_reg"), Name("en_reg")},
        ffc \in OptionalArrays}

MeshVars ==
    ConnectivityMeshes \cup DimensionMeshes \cup CoordinateMeshes
        \cup NodeCoordinateMeshes \cup OptionalMeshes

\* The meshes of a registry with several meshes: a compliant mesh, one
\* without topology dimension, one whose mandatory connectivity is absent,
\* one in non-standard order and one that names a variable that is missing.
SeveralMeshes ==
    {MeshVar(PyInt(2), PyStr(<<"lon", "lat">>), Name("en_reg"), Name("fn_reg"), None,
             Name("en_reg"), Name("fe_reg"), Name("fe_reg"), None, None, None, None),
     MeshVar(None, None, Name("en_reg"), None, None,
             None, None, None, None, None, None, None),
     MeshVar(PyInt(1), Name("lon"), None, Name("fn_reg"), None,
             None, None, None, None, None, None, None),
     MeshVar(PyInt(2), Name("lon"), Name("en_swap"), Name("fn_swap"), None,
             Name("fn_reg"), None, Name("fn_reg"), None, Name("nfaces"), None, None),
     MeshVar(PyInt(1), Name("lon"), Name("nope"), None, None,
             None, None, None, None, None, None, None)}

\* The mesh variables found at setup, in registry order.
Registries ==
    {<<>>} \cup {<<m>> : m \in MeshVars}
        \cup UNION {[1..n -> SeveralMeshes] : n \in 2..MaxMeshes}

\* ---------------------------------------------------------------- check_run

\* How a call of check_run ended: with ret_vals returned or with exc raised.
Ended(o, e, rv) == [outcome |-> o, exc |-> e, ret_vals |-> rv]

NoRun == Ended("none", NoExc, <<>>)

Init ==
    /\ ds \in Datasets
    /\ mesh_attrs \in Registries
    /\ meshes = [k \in DOMAIN mesh_attrs |-> InitialContext(mesh_attrs[k])]
    /\ mi = 1
    /\ ci = 1
    /\ call = 1
    /\ ret_vals = <<>>
    /\ outcome = "running"
    /\ exc = NoExc
    /\ log = <<>>
    /\ resolved = <<>>
    /\ first = NoRun
    /\ done = [k \in DOMAIN mesh_attrs |-> <<>>]
    /\ dropped = NoResult

\* self.meshes[mesh][key] = value with every entry of the registry being
\* one and the same record.
WriteContextShared(registry, m, ctx) == [k \in DOMAIN registry |-> ctx]

\* The writes self.meshes[mesh][key] = value of one stage call on the m-th
\* mesh, ctx being the mesh's context after them.
WriteContext(registry, m, ctx) == [registry EXCEPT ![m] = ctx]

\* check_run is about to call stage k on the current mesh.
AtStage(k) ==
    /\ outcome = "running"
    /\ Len(meshes) > 0
    /\ mi <= Len(meshes)
    /\ YieldChecks[ci].digit = k

\* One `check(mesh)` of the loop body, r being what stage k does: the first
\* call's result is dropped, the second call's is appended.
Invoke(k, r) ==
    /\ meshes' = WriteContext(meshes, mi, r.ctx)
    /\ resolved' = resolved \o [j \in 1..Len(r.calls) |-> <<mi, r.calls[j]>>]
    /\ IF r.exc # NoExc
       THEN /\ outcome' = "raised"
            /\ exc' = r.exc
            /\ UNCHANGED <<mi, ci, call, ret_vals, log, dropped>>
       ELSE /\ log' = Append(log, <<mi, k>>)
            /\ UNCHANGED <<outcome, exc>>
            /\ IF call = 1
               THEN /\ call' = 2
                    /\ dropped' = r.res
                    /\ UNCHANGED <<mi, ci, ret_vals>>
               ELSE /\ call' = 1
                    /\ ret_vals' = Append(ret_vals, r.res)
                    /\ UNCHANGED dropped
                    /\ IF ci < Len(YieldChecks)
                       THEN ci' = ci + 1 /\ mi' = mi
                       ELSE ci' = 1 /\ mi' = mi + 1
    /\ UNCHANGED <<ds, mesh_attrs, first, done>>

Check1 == AtStage(1) /\ Invoke(1, Check1TopologyDim(ds, mesh_attrs[mi], meshes[mi]))

Check2 == AtStage(2) /\ Invoke(2, Check2ConnectivityAttrs(ds, mesh_attrs[mi], meshes[mi]))

Check3 == AtStage(3) /\ Invoke(3, Check3NcoordsExist(ds, mesh_attrs[mi], meshes[mi]))

Check4 == AtStage(4) /\ Invoke(4, Check4EdgeFaceConn(ds, mesh_attrs[mi], meshes[mi]))

Check5 == AtStage(5) /\ Invoke(5, Check5FaceEdgeConn(ds, mesh_attrs[mi], meshes[mi]))

Check6 == AtStage(6) /\ Invoke(6, Check6FaceFaceConn(ds, mesh_attrs[mi], meshes[mi]))

\* The registry is empty: the failing summary is the only result.
NoMeshes ==
    /\ outcome = "running"
    /\ Len(meshes) = 0
    /\ ret_vals' = Append(ret_vals, MakeResult("HIGH", 0, 1, DescRun,
           <<Msg("No mesh variables are detected in the data; all checks fail.", <<>>)>>))
    /\ outcome' = "returned"
    /\ UNCHANGED <<ds, mesh_attrs, meshes, mi, ci, call, exc, log, resolved, first, done, dropped>>

\* Every mesh has been checked: the summary is appended and ret_vals returned.
ReturnSummary ==
    /\ outcome = "running"
    /\ Len(meshes) > 0
    /\ mi > Len(meshes)
    /\ ret_vals' = Append(ret_vals, MakeResult("HIGH", 1, 1, DescRun, <<>>))
    /\ outcome' = "returned"
    /\ UNCHANGED <<ds, mesh_attrs, meshes, mi, ci, call, exc, log, resolved, first, done, dropped>>

Next ==
    \/ Check1
    \/ Check2
    \/ Check3
    \/ Check4
    \/ Check5
    \/ Check6
    \/ NoMeshes
    \/ ReturnSummary

Spec == Init /\ [][Next]_vars

\* ------------------------------------------------------- a second check_run

\* `ret_vals = []` at the start of check_run, kept being the list that the
\* previous call returned.
EntryRetValsKept(kept) == kept

EntryRetVals(kept) == <<>>

\* check_run is called once more on the same Dataset, after a setup that
\* gave every mesh a fresh context of its raw attributes.
Rerun ==
    /\ outcome # "running"
    /\ first = NoRun
    /\ first' = Ended(outcome, exc, ret_vals)
    /\ meshes' = [k \in DOMAIN mesh_attrs |-> InitialContext(mesh_attrs[k])]
    /\ mi' = 1
    /\ ci' = 1
    /\ call' = 1
    /\ ret_vals' = EntryRetVals(ret_vals)
    /\ outcome' = "running"
    /\ exc' = NoExc
    /\ log' = <<>>
    /\ resolved' = <<>>
    /\ dropped' = NoResult
    /\ UNCHANGED <<ds, mesh_attrs, done>>

NextTwice ==
    \/ Next
    \/ Rerun

SpecTwice == Init /\ [][NextTwice]_vars

\* ------------------------------------------- meshes processed in any order

\* getattr(self, name)(mesh) for the _check method with the digit k.
Stage(k, d, mesh, ctx) ==
    CASE k = 1 -> Check1TopologyDim(d, mesh, ctx)
      [] k = 2 -> Check2ConnectivityAttrs(d, mesh, ctx)
      [] k = 3 -> Check3NcoordsExist(d, mesh, ctx)
      [] k = 4 -> Check4EdgeFaceConn(d, mesh, ctx)
      [] k = 5 -> Check5FaceEdgeConn(d, mesh, ctx)
      [] k = 6 -> Check6FaceFaceConn(d, mesh, ctx)

\* `ret_vals.append(check(mesh))` after `_ = check(mesh)` had the outcome
\* once: the second call runs on the context the first one left, unless the
\* first one raised.
SecondCall(k, d, mesh, once) ==
    IF once.exc # NoExc THEN once
    ELSE [Stage(k, d, mesh, once.ctx) EXCEPT !.calls = once.calls \o @]

\* The loop body `_ = check(mesh); ret_vals.append(check(mesh))` for stage k.
Twice(k, d, mesh, ctx) == SecondCall(k, d, mesh, Stage(k, d, mesh, ctx))

\* The loop body has had the outcome r for the m-th mesh.
Processed(m, r) ==
    /\ meshes' = WriteContext(meshes, m, r.ctx)
    /\ IF r.exc # NoExc
       THEN /\ outcome' = "raised"
            /\ exc' = r.exc
            /\ UNCHANGED done
       ELSE /\ done' = [done EXCEPT ![m] = Append(@, r.res)]
            /\ UNCHANGED <<outcome, exc>>
    /\ UNCHANGED <<ds, mesh_attrs, mi, ci, call, ret_vals, log, resolved, first, dropped>>

\* The loop body of check_run for the next stage of the m-th mesh, whichever
\* mesh the previous step was about: each mesh goes through its stages in
\* the order of yield_checks, the meshes in any order.  (log, resolved and
\* dropped follow the order of check_run's calls and are not kept here.)
StageOfMesh(m) ==
    /\ outcome = "running"
    /\ Len(done[m]) < Len(YieldChecks)
    /\ Processed(m, Twice(YieldChecks[Len(done[m]) + 1].digit, ds, mesh_attrs[m], meshes[m]))

\* The results of the meshes from the m-th on, in registry order.
RECURSIVE ResultsFrom(_)
ResultsFrom(m) == IF m > Len(done) THEN <<>> ELSE done[m] \o ResultsFrom(m + 1)

\* Every mesh has gone through its stages: the results are returned in
\* registry order, followed by the summary.
ReturnAll ==
    /\ outcome = "running"
    /\ Len(meshes) > 0
    /\ \A m \in DOMAIN done : Len(done[m]) = Len(YieldChecks)
    /\ ret_vals' = Append(ResultsFrom(1), MakeResult("HIGH", 1, 1, DescRun, <<>>))
    /\ outcome' = "returned"
    /\ UNCHANGED <<ds, mesh_attrs, meshes, mi, ci, call, exc, log, resolved, first, done, dropped>>

NextInterleaved ==
    \/ \E m \in DOMAIN meshes : StageOfMesh(m)
    \/ ReturnAll
    \/ NoMeshes

SpecInterleaved == Init /\ [][NextInterleaved]_vars

\* ----------------------------------------------------------------- claims

NStages == Len(YieldChecks)

\* check_run has appended the result of stage k for the m-th mesh.
HasResult(m, k) == Len(ret_vals) >= NStages * (m - 1) + k

ResultAt(m, k) == ret_vals[NStages * (m - 1) + k]

Range(s) == {s[k] : k \in DOMAIN s}

\* How often x occurs in the sequence s.
Count(s, x) == Cardinality({k \in DOMAIN s : s[k] = x})

\* What the shape resolver does for the m-th mesh and the kind cty.
Shape(m, cty) == ValidateNcShape(ds, mesh_attrs[m], meshes[m], cty)

\* Claim C1: no stage lets a lookup failure escape: a name that is not a
\* variable or dimension of the Dataset never ends the run with the
\* AttributeError, KeyError or ValueError of the failed lookup.
C1_NoLookupFaultEscapes == exc \notin {"AttributeError", "KeyError", "ValueError"}

\* The result list that check_run owes for the registry.
C2Shape ==
    IF Len(meshes) = 0
    THEN /\ Len(ret_vals) = 1
         /\ ret_vals[1].score = 0
         /\ ret_vals[1].out_of = 1
         /\ Len(ret_vals[1].msgs) = 1
    ELSE /\ Len(ret_vals) = NStages * Len(meshes) + 1
         /\ \A m \in DOMAIN meshes :
               /\ ResultAt(m, 1).desc = Desc1
               /\ ResultAt(m, 2).desc = Desc2
               /\ ResultAt(m, 3).desc = Desc3
               /\ ResultAt(m, 4).desc = Desc4
               /\ ResultAt(m, 5).desc = Desc5
               /\ ResultAt(m, 6).desc = Desc6
         /\ ret_vals[Len(ret_vals)].desc = DescRun
         /\ ret_vals[Len(ret_vals)].score = 1
         /\ ret_vals[Len(ret_vals)].out_of = 1

\* Claim C2: whatever the stages find, check_run ends by returning the
\* results of all six stages of every mesh, in registry and stage order,
\* followed by the summary (the failing summary alone for an empty registry).
C2_RunReturnsAllResults == outcome # "running" => (outcome = "returned" /\ C2Shape)

\* The stage invocations of a run over n meshes that is not cut short.
FullLog(n) ==
    [k \in 1..(2 * NStages * n) |->
        <<((k - 1) \div (2 * NStages)) + 1, (((k - 1) % (2 * NStages)) \div 2) + 1>>]

\* Claim C3: the stages of a mesh run in the order 1, 2, 3, 4, 5, 6, mesh
\* after mesh; stages 4, 5 and 6 are entered for a mesh only after both
\* invocations of stage 2 for that mesh have returned, and a mesh context
\* holds nedges or nfaces only if the shape resolver ran for that mesh.
C3_DerivedKeysWrittenBeforeRead ==
    /\ Len(log) <= 2 * NStages * Len(meshes)
    /\ log = SubSeq(FullLog(Len(meshes)), 1, Len(log))
    /\ \A k \in 4..6 : AtStage(k) => Count(log, <<mi, 2>>) = 2
    /\ \A m \in DOMAIN meshes :
          /\ meshes[m]["nedges"] # None => <<m, "edge_node_connectivity">> \in Range(resolved)
          /\ meshes[m]["nfaces"] # None => <<m, "face_node_connectivity">> \in Range(resolved)

\* Stage 4 is about to read nedges and nfaces, which stage 2 has derived.
C3_Witness ==
    /\ AtStage(4)
    /\ Truthy(meshes[mi]["nedges"])
    /\ Truthy(meshes[mi]["nfaces"])

\* The connectivity stage has resolved the kind cty of the m-th mesh as
\* non-standard order, and the dimension attribute that this asks for is
\* absent or names no Dataset dimension.
NonstdWithoutDimension(m, cty) ==
    /\ HasNcAttr(mesh_attrs[m], cty)
    /\ <<m, cty>> \in Range(resolved)
    /\ Shape(m, cty).exc = NoExc
    /\ Shape(m, cty).order = "nonstd"
    /\ ~CheckEdgeFaceDim(ds, mesh_attrs[m], meshes[m], DimMap[cty]).exists

\* Claim C4: a connectivity array in non-standard order whose edge_dimension
\* (face_dimension) is absent or undefined makes the connectivity stage
\* fail: score < out_of, with the missing-dimension message.
C4_NonstdNeedsDimension ==
    \A m \in DOMAIN meshes : \A cty \in DOMAIN DimMap :
        (HasResult(m, 2) /\ NonstdWithoutDimension(m, cty)) =>
            /\ ResultAt(m, 2).score < ResultAt(m, 2).out_of
            /\ CheckEdgeFaceDim(ds, mesh_attrs[m], meshes[m], DimMap[cty]).msg
                   \in Range(ResultAt(m, 2).msgs)

\* The attribute cty of the m-th mesh names an array of two dimensions that
\* the Dataset defines.
ResolvesToArray(m, cty) ==
    /\ HasNcAttr(mesh_attrs[m], cty)
    /\ InVariables(ds, mesh_attrs[m][cty])
    /\ Len(Variable(ds, mesh_attrs[m][cty]).dimensions) = 2
    /\ \A k \in 1..2 : Variable(ds, mesh_attrs[m][cty]).dimensions[k] \in DOMAIN ds.dimensions

CountName == [edge_node_connectivity |-> "nedges", face_node_connectivity |-> "nfaces"]

FixedCount == [edge_node_connectivity |-> 2, face_node_connectivity |-> 3]

MandatoryAbsent(m) ==
    \E k \in 1..3 :
        /\ mesh_attrs[m]["topology_dimension"] = PyInt(k)
        /\ ~HasNcAttr(mesh_attrs[m], Conns[k])

\* Claim C6: when the connectivity attribute that the topology dimension
\* mandates is absent, the connectivity stage returns score 0 of 1, runs
\* the shape resolver for no attribute and leaves the context as it was.
C6_ShortCircuit ==
    \A m \in DOMAIN meshes :
        MandatoryAbsent(m) =>
            LET r == Check2ConnectivityAttrs(ds, mesh_attrs[m], meshes[m])
            IN  /\ r.exc = NoExc
                /\ r.res.score = 0
                /\ r.res.out_of = 1
                /\ r.calls = <<>>
                /\ r.ctx = meshes[m]
                /\ \A cty \in ConnSet : <<m, cty>> \notin Range(resolved)
                /\ meshes[m]["nedges"] = None
                /\ meshes[m]["nfaces"] = None
                /\ HasResult(m, 2) => (ResultAt(m, 2).score = 0 /\ ResultAt(m, 2).out_of = 1)

\* The connectivity stage has returned for a one-dimensional mesh without
\* edge_node_connectivity that has a face_node_connectivity.
C6_Witness ==
    \E m \in DOMAIN meshes :
        /\ mesh_attrs[m]["topology_dimension"] = PyInt(1)
        /\ ~HasNcAttr(mesh_attrs[m], "edge_node_connectivity")
        /\ HasNcAttr(mesh_attrs[m], "face_node_connectivity")
        /\ HasResult(m, 2)

\* Claim C7: every stage result with score < out_of carries at least one
\* non-empty message.
C7_FailureHasMessage ==
    \A k \in DOMAIN ret_vals :
        ret_vals[k].score < ret_vals[k].out_of =>
            \E j \in DOMAIN ret_vals[k].msgs : ret_vals[k].msgs[j].text # ""

\* Claim C8: the topology-dimension stage returns out_of = 1, and score = 1
\* exactly when the topology dimension is 1, 2 or 3; for any other value the
\* score is 0 and a message holds the offending value.
C8_TopologyDimension ==
    \A m \in DOMAIN meshes :
        HasResult(m, 1) =>
            LET td == mesh_attrs[m]["topology_dimension"]
                r == ResultAt(m, 1)
            IN  /\ r.out_of = 1
                /\ r.score = 1 <=> td \in {PyInt(1), PyInt(2), PyInt(3)}
                /\ td \notin {PyInt(1), PyInt(2), PyInt(3)} =>
                       /\ r.score = 0
                       /\ \E j \in DOMAIN r.msgs : td \in Range(r.msgs[j].args)

\* The stage has returned for a mesh whose topology dimension is the
\* string "2".
C8_Witness ==
    \E m \in DOMAIN meshes :
        /\ mesh_attrs[m]["topology_dimension"] = Name("2")
        /\ HasResult(m, 1)
        /\ ResultAt(m, 1).score = 0

\* The topology dimension of the m-th mesh is present and so is the
\* connectivity attribute that it mandates.
MandatoryPresent(m) ==
    /\ Truthy(mesh_attrs[m]["topology_dimension"])
    /\ ~MandatoryAbsent(m)

Present(m) == {cty \in ConnSet : HasNcAttr(mesh_attrs[m], cty)}

Valid(m) == {cty \in Present(m) : Shape(m, cty).exc = NoExc /\ Shape(m, cty).valid}

\* Claim C9: with the topology dimension and its mandated connectivity
\* present, the connectivity stage returns a result whose out_of is the
\* number of connectivity attributes present, whose score is the number of
\* them that the resolver finds valid, with one "invalid array" message for
\* each of the others.
C9_ConnectivityScore ==
    \A m \in DOMAIN meshes :
        MandatoryPresent(m) =>
            /\ ~(outcome = "raised" /\ mi = m /\ YieldChecks[ci].digit = 2)
            /\ HasResult(m, 2) =>
                  /\ ResultAt(m, 2).out_of = Cardinality(Present(m))
                  /\ ResultAt(m, 2).score = Cardinality(Valid(m))
                  /\ Len(ResultAt(m, 2).msgs) = Cardinality(Present(m) \ Valid(m))
                  /\ \A cty \in Present(m) \ Valid(m) :
                        Msg("Dataset contains invalid \"{}\" array", <<Name(cty)>>)
                            \in Range(ResultAt(m, 2).msgs)

\* Claim C10: every result that check_run collects has 0 <= score <= out_of
\* (so a result with out_of = 0 has score 0).
C10_ScoreWithinOutOf ==
    \A k \in DOMAIN ret_vals :
        /\ 0 <= ret_vals[k].score
        /\ ret_vals[k].score <= ret_vals[k].out_of

\* check_run has returned a list with an inapplicable stage (out_of = 0), a
\* partly failing stage and a stage with full score.
C10_Witness ==
    /\ outcome = "returned"
    /\ \E k \in DOMAIN ret_vals : ret_vals[k].out_of = 0
    /\ \E k \in DOMAIN ret_vals : 0 < ret_vals[k].score /\ ret_vals[k].score < ret_vals[k].out_of
    /\ \E k \in DOMAIN ret_vals : ret_vals[k].score = ret_vals[k].out_of /\ ret_vals[k].out_of > 1

\* ---------------------------------------------------------------- C11

\* What stage 3 has to report for the m-th mesh, read off the raw attributes
\* of the mesh variable and the Dataset's variables.
NodeCoordinatesCase(m, r) ==
    LET td == mesh_attrs[m]["topology_dimension"]
        nc == mesh_attrs[m]["node_coordinates"]
        mismatch == "The size of mesh's node coordinates does not match the topology dimension ({})"
    IN
    IF ~Truthy(td)
    THEN /\ r.score = 0 /\ r.out_of = 1
         /\ r.msgs = <<Msg("Failed because no topology dimension exists", <<>>)>>
    ELSE IF nc = None
    THEN /\ r.score = 0 /\ r.out_of = 1
         /\ Len(r.msgs) = 1 /\ r.msgs[1].text # mismatch
    ELSE LET names == Split(nc)
             found == {k \in DOMAIN names : names[k] \in DOMAIN ds.variables}
         IN
         IF td = PyInt(Len(names))
         THEN /\ r.out_of = Len(names)
              /\ r.score = Cardinality(found)
              /\ Len(r.msgs) = Len(names) - Cardinality(found)
              /\ \A k \in DOMAIN names \ found :
                     \E j \in DOMAIN r.msgs : r.msgs[j].args = <<Name(names[k])>>
         ELSE /\ r.score = 0 /\ r.out_of = 1
              /\ Len(r.msgs) = 1 /\ r.msgs[1].text = mismatch

\* Claim C11: the node-coordinates stage.  With a topology dimension d and a
\* node_coordinates attribute of exactly d names, out_of = d and score is the
\* number of names that are Dataset variables, with one message per name that
\* is not; with another number of names, score 0 of 1 with the mismatch
\* message; without the attribute, score 0 of 1 with another message; without
\* a topology dimension, score 0 of 1 whatever node_coordinates holds.
C11_NodeCoordinates ==
    \A m \in DOMAIN meshes :
        /\ Check3NcoordsExist(ds, mesh_attrs[m], meshes[m]).exc = NoExc
        /\ NodeCoordinatesCase(m, Check3NcoordsExist(ds, mesh_attrs[m], meshes[m]).res)
        /\ HasResult(m, 3) => NodeCoordinatesCase(m, ResultAt(m, 3))

\* check_run holds a stage 3 result with as many names as the topology
\* dimension, one of which is no Dataset variable.
C11_Witness ==
    \E m \in DOMAIN meshes :
        /\ HasResult(m, 3)
        /\ mesh_attrs[m]["topology_dimension"] = PyInt(2)
        /\ ResultAt(m, 3).score = 1
        /\ ResultAt(m, 3).out_of = 2
        /\ Len(ResultAt(m, 3).msgs) = 1

\* ---------------------------------------------------------------- C12

\* The derived key k of the m-th mesh has been written by the shape resolver.
Derived(m, k) == meshes[m][k] # None

\* The array the attribute a of the m-th mesh names has exactly the shape sh.
HasShape(m, a, sh) ==
    /\ InVariables(ds, mesh_attrs[m][a])
    /\ Variable(ds, mesh_attrs[m][a]).shape = sh

\* Claim C12: the edge-face stage.  Without a derived nedges or nfaces it is
\* not applicable (score 0, out_of 0), and neither when both are derived and
\* the attribute edge_face_connectivity is absent; with both derived and the
\* attribute present out_of = 1, and score = 1 exactly when the array has the
\* shape (size of nedges, 2), else score = 0 with an 'Incorrect shape' message.
C12_EdgeFaceStage ==
    \A m \in DOMAIN meshes :
        HasResult(m, 3) =>
            LET r == Check4EdgeFaceConn(ds, mesh_attrs[m], meshes[m]) IN
            /\ r.exc = NoExc
            /\ HasResult(m, 4) => ResultAt(m, 4) = r.res
            /\ IF ~Derived(m, "nedges") \/ ~Derived(m, "nfaces")
                   \/ mesh_attrs[m]["edge_face_connectivity"] = None
               THEN r.res.score = 0 /\ r.res.out_of = 0
               ELSE /\ r.res.out_of = 1
                    /\ r.res.score \in {0, 1}
                    /\ r.res.score = 1 <=>
                           HasShape(m, "edge_face_connectivity", <<meshes[m]["nedges"].size, 2>>)
                    /\ r.res.score = 0 =>
                           \E j \in DOMAIN r.res.msgs :
                               r.res.msgs[j].text = "Incorrect shape ({}, {}) of edge_face_connectivity array"

\* ---------------------------------------------------------------- C13

\* Stage 5 or 6 applies to the m-th mesh: nfaces is derived, the Dataset
\* declares maxnumnodesperface and the attribute cty is present.
FaceStageApplies(m, cty) ==
    /\ Derived(m, "nfaces")
    /\ "maxnumnodesperface" \in DOMAIN ds.dimensions
    /\ mesh_attrs[m][cty] # None

\* The attribute a of the m-th mesh is absent or names a two-dimensional
\* array of the Dataset, so that looking the array up cannot fail.
NamesArray(m, a) ==
    \/ mesh_attrs[m][a] = None
    \/ /\ InVariables(ds, mesh_attrs[m][a])
       /\ Len(Variable(ds, mesh_attrs[m][a]).shape) = 2

\* What stage 5 or 6, with the outcome r, has to report for the attribute cty.
FaceStageCase(m, cty, r) ==
    NamesArray(m, cty) =>
    /\ r.exc = NoExc
    /\ IF ~FaceStageApplies(m, cty)
       THEN r.res.score = 0 /\ r.res.out_of = 0
       ELSE /\ r.res.out_of = 1
            /\ r.res.score \in {0, 1}
            /\ r.res.score = 1 <=>
                   HasShape(m, cty, <<meshes[m]["nfaces"].size,
                                      ds.dimensions["maxnumnodesperface"].size>>)
            /\ r.res.score = 0 =>
                   \E j \in DOMAIN r.res.msgs :
                       r.res.msgs[j].text = "Incorrect shape ({}, {}) of {} array"

\* Claim C13: the face-edge and face-face stages are applicable (out_of = 1)
\* only when nfaces is derived, the Dataset declares maxnumnodesperface and the
\* stage's attribute is present; in every other case, a Dataset without
\* maxnumnodesperface included, they report score 0 and out_of 0.  When
\* applicable, score = 1 exactly for the shape (size of nfaces, size of
\* maxnumnodesperface), else score = 0 with an 'Incorrect shape' message.
C13_FaceStages ==
    \A m \in DOMAIN meshes :
        /\ HasResult(m, 4) =>
               FaceStageCase(m, "face_edge_connectivity",
                             Check5FaceEdgeConn(ds, mesh_attrs[m], meshes[m]))
        /\ HasResult(m, 5) =>
               FaceStageCase(m, "face_face_connectivity",
                             Check6FaceFaceConn(ds, mesh_attrs[m], meshes[m]))

\* ---------------------------------------------------------------- C14

\* Claim C14: for a volume_node_connectivity attribute that is present and
\* names an array of two defined dimensions, the shape resolver raises
\* NotImplementedError: it returns neither valid nor (invalid, none), leaves
\* the context as it found it, and the fault ends the stage that called it.
C14_VolumeNotImplemented ==
    \A m \in DOMAIN meshes :
        ResolvesToArray(m, "volume_node_connectivity") =>
            /\ Shape(m, "volume_node_connectivity").exc = "NotImplementedError"
            /\ ~Shape(m, "volume_node_connectivity").valid
            /\ Shape(m, "volume_node_connectivity") # ShapeReturned(FALSE, "None", meshes[m])
            /\ Shape(m, "volume_node_connectivity").ctx = meshes[m]
            /\ <<m, "volume_node_connectivity">> \in Range(resolved) =>
                   /\ outcome = "raised"
                   /\ exc = "NotImplementedError"
                   /\ mi = m

\* Stage 2 has called the resolver for a volume connectivity, after it derived
\* nedges for the same mesh, and the run has ended with NotImplementedError.
C14_Witness ==
    \E m \in DOMAIN meshes :
        /\ <<m, "volume_node_connectivity">> \in Range(resolved)
        /\ ResolvesToArray(m, "volume_node_connectivity")
        /\ Derived(m, "nedges")
        /\ outcome = "raised"
        /\ exc = "NotImplementedError"

\* ---------------------------------------------------------------- C15

UndefinedDimension(m, cty) ==
    /\ HasNcAttr(mesh_attrs[m], cty)
    /\ InVariables(ds, mesh_attrs[m][cty])
    /\ Len(Variable(ds, mesh_attrs[m][cty]).dimensions) = 2
    /\ \E k \in 1..2 : Variable(ds, mesh_attrs[m][cty]).dimensions[k] \notin DOMAIN ds.dimensions

\* Claim C16: the shape resolver returns (invalid, none) and leaves the
\* context as it is when the connectivity attribute is absent from the mesh,
\* and when the attribute names an array one of whose two dimension names is
\* not a dimension of the Dataset.
C16_InvalidNone ==
    \A m \in DOMAIN meshes : \A cty \in ConnSet :
        /\ ~HasNcAttr(mesh_attrs[m], cty) =>
               Shape(m, cty) = ShapeReturned(FALSE, "None", meshes[m])
        /\ (UndefinedDimension(m, cty) /\ <<m, cty>> \in Range(resolved)) =>
               /\ Shape(m, cty) = ShapeReturned(FALSE, "None", meshes[m])
               /\ outcome # "raised"

\* ---------------------------------------------------------------- C17

DimensionKinds == {"edge_dimension", "face_dimension"}

\* What the dimension-requirement resolver does for the m-th mesh.
EdgeFaceDim(m, kind) == CheckEdgeFaceDim(ds, mesh_attrs[m], meshes[m], kind)

\* The attribute kind of the m-th mesh is present and names a dimension of
\* the Dataset.
NamesDimension(m, kind) ==
    /\ mesh_attrs[m][kind] # None
    /\ Len(mesh_attrs[m][kind].words) = 1
    /\ mesh_attrs[m][kind].words[1] \in DOMAIN ds.dimensions

\* Stage 2 has found the connectivity of the m-th mesh that needs the
\* attribute kind in non-standard order, and so has called the resolver.
CalledFor(m, kind) ==
    \E cty \in DOMAIN DimMap :
        /\ DimMap[cty] = kind
        /\ <<m, cty>> \in Range(resolved)
        /\ Shape(m, cty).exc = NoExc
        /\ Shape(m, cty).order = "nonstd"

\* Claim C17: the dimension-requirement resolver, for edge_dimension and
\* face_dimension, succeeds and sets the context key of that kind to the
\* Dataset dimension exactly when the mesh has the attribute and it names a
\* defined dimension; otherwise it fails with a message, one for a missing
\* attribute and another for an undefined dimension, raises nothing and
\* leaves the context unchanged.
C17_DimensionRequirement ==
    \A m \in DOMAIN meshes : \A kind \in DimensionKinds :
        /\ EdgeFaceDim(m, kind).exists <=> NamesDimension(m, kind)
        /\ EdgeFaceDim(m, kind).exists =>
               EdgeFaceDim(m, kind).ctx =
                   [meshes[m] EXCEPT ![kind] = ds.dimensions[mesh_attrs[m][kind].words[1]]]
        /\ ~EdgeFaceDim(m, kind).exists =>
               /\ EdgeFaceDim(m, kind).ctx = meshes[m]
               /\ EdgeFaceDim(m, kind).msg # None
               /\ EdgeFaceDim(m, kind).msg.text =
                      (IF mesh_attrs[m][kind] = None
                       THEN "Mesh does not contain {}, required when connectivity in non-standard order."
                       ELSE "Edge dimension defined in mesh, not defined in dataset dimensions.")
        /\ CalledFor(m, kind) =>
               meshes[m][kind] = (IF NamesDimension(m, kind)
                                  THEN ds.dimensions[mesh_attrs[m][kind].words[1]]
                                  ELSE mesh_attrs[m][kind])

\* Stage 2 has returned for a mesh with both connectivities in non-standard
\* order: the resolver wrote the edge dimension into the context and failed
\* for the face dimension, which the mesh lacks or the Dataset does not define.
C17_Witness ==
    \E m \in DOMAIN meshes :
        /\ HasResult(m, 2)
        /\ CalledFor(m, "edge_dimension")
        /\ NamesDimension(m, "edge_dimension")
        /\ meshes[m]["edge_dimension"] = ds.dimensions["nedges"]
        /\ CalledFor(m, "face_dimension")
        /\ ~NamesDimension(m, "face_dimension")

\* ---------------------------------------------------------------- C18

\* Stage 2 has run the coordinate check of the m-th mesh for the kind cty:
\* the connectivity is present, the coordinate attribute is present, and the
\* resolver call that precedes the check in the loop body did not raise.
CoordinatesChecked(m, cty) ==
    /\ Truthy(meshes[m][cty])
    /\ HasNcAttr(mesh_attrs[m], CoordMap[cty])
    /\ <<m, cty>> \in Range(resolved)
    /\ Shape(m, cty).exc = NoExc

\* The names of a coordinate attribute that are Dataset variables with a
\* length, and the count dimension of the attribute is defined.
CoordinatesResolve(m, cty) ==
    /\ VarMap[CoordMap[cty]] \in DOMAIN ds.dimensions
    /\ \A k \in DOMAIN Split(mesh_attrs[m][CoordMap[cty]]) :
           /\ Split(mesh_attrs[m][CoordMap[cty]])[k] \in DOMAIN ds.variables
           /\ Len(ds.variables[Split(mesh_attrs[m][CoordMap[cty]])[k]].shape) > 0

\* Claim C18: the edge/face coordinate check, for a present connectivity and
\* a present coordinate attribute of k names, gives out_of = k and score =
\* the number of names whose variable is as long as the count dimension
\* (nedges or nfaces), hence score <= out_of, and one message for every name
\* whose length differs.
C18_CoordinateCheck ==
    \A m \in DOMAIN meshes : \A cty \in DOMAIN CoordMap :
        (CoordinatesChecked(m, cty) /\ CoordinatesResolve(m, cty)) =>
            LET r == CheckEdgeFaceCoords(ds, mesh_attrs[m], meshes[m], cty)
                names == Split(mesh_attrs[m][CoordMap[cty]])
                match == {k \in DOMAIN names :
                             ds.variables[names[k]].shape[1] = ds.dimensions[VarMap[CoordMap[cty]]].size}
            IN  /\ r.exc = NoExc
                /\ r.res.out_of = Len(names)
                /\ r.res.score = Cardinality(match)
                /\ r.res.score <= r.res.out_of
                /\ Len(r.res.msgs) = Len(names) - Cardinality(match)

\* ---------------------------------------------------------------- C19

\* The results of the stages from the k-th on that the m-th mesh gets when it
\* is processed alone, from the context ctx, up to the first stage that raises.
RECURSIVE AloneFrom(_, _, _), AloneNext(_, _, _)
AloneFrom(m, ctx, k) ==
    IF k > Len(YieldChecks) THEN <<>>
    ELSE AloneNext(m, k, Twice(YieldChecks[k].digit, ds, mesh_attrs[m], ctx))

\* ... given the outcome r of the k-th stage.
AloneNext(m, k, r) ==
    IF r.exc # NoExc THEN <<>>
    ELSE <<r.res>> \o AloneFrom(m, r.ctx, k + 1)

Alone(m) == AloneFrom(m, InitialContext(mesh_attrs[m]), 1)

\* The results every mesh has so far are those it gets when processed alone.
SameAsAlone ==
    \A m \in DOMAIN done :
        /\ Len(done[m]) <= Len(Alone(m))
        /\ done[m] = SubSeq(Alone(m), 1, Len(done[m]))

\* A step changes the context of one mesh at most, the mesh whose stage ran,
\* and neither the registry's entries nor the Dataset nor the raw attributes.
OnlyOwnContext ==
    /\ ds' = ds
    /\ mesh_attrs' = mesh_attrs
    /\ DOMAIN meshes' = DOMAIN meshes
    /\ \A m \in DOMAIN meshes :
           meshes'[m] # meshes[m] =>
               /\ done'[m] # done[m] \/ outcome' = "raised"
               /\ \A o \in DOMAIN meshes \ {m} : meshes'[o] = meshes[o]

\* Claim C19: running a stage for mesh m changes only m's entry of the mesh
\* registry; the contexts of the other meshes and the Dataset stay as they
\* are.  So, with the stages of different meshes interleaved in any way and
\* each mesh's own stages in the order 1..6, every mesh gets the results it
\* gets when processed alone.
C19_MeshesIndependent == []SameAsAlone /\ [][OnlyOwnContext]_vars

\* Two meshes have been processed with their stages interleaved: the second
\* mesh of the registry got a result before the first one got its last, both
\* have all their results, and stage 2 wrote derived keys into both contexts.
C19_Witness ==
    /\ Len(meshes) = 2
    /\ Len(done[1]) = Len(YieldChecks)
    /\ Len(done[2]) = Len(YieldChecks)
    /\ outcome = "running"
    /\ Derived(1, "nfaces")
    /\ Derived(2, "nfaces")
    /\ meshes[1] # meshes[2]

\* ---------------------------------------------------------------- C20

DerivedKeys == {"nedges", "nfaces"}

\* A derived key that has been written holds the Dataset dimension of its name.
DerivedFromDataset ==
    \A m \in DOMAIN meshes : \A k \in DerivedKeys :
        Derived(m, k) => (k \in DOMAIN ds.dimensions /\ meshes[m][k] = ds.dimensions[k])

\* A step deletes no entry of the registry and no key of a context, and
\* leaves a derived key that has been written as it is.
NothingDeleted ==
    /\ DOMAIN meshes' = DOMAIN meshes
    /\ \A m \in DOMAIN meshes :
           /\ DOMAIN meshes'[m] = DOMAIN meshes[m]
           /\ \A k \in DerivedKeys : Derived(m, k) => meshes'[m][k] = meshes[m][k]

\* Claim C20: derived keys are stable for the whole run.  No stage deletes an
\* entry of the mesh registry or a key of a mesh context, and once nedges
\* (nfaces) has been written into a mesh's context it holds the Dataset
\* dimension named nedges (nfaces) in every later state of the run.
C20_DerivedKeysStable == []DerivedFromDataset /\ [][NothingDeleted]_vars

\* check_run has returned for two meshes; stage 2 wrote nedges and nfaces
\* into the first mesh's context before the twenty later stage calls ran.
C20_Witness ==
    /\ outcome = "returned"
    /\ Len(meshes) = 2
    /\ Derived(1, "nedges")
    /\ Derived(1, "nfaces")
    /\ meshes[1]["nedges"] = ds.dimensions["nedges"]
    /\ \E m \in DOMAIN meshes : ~Derived(m, "nedges")

\* ---------------------------------------------------------------- C21

\* The stage with the digit k called for the m-th mesh in its present context.
StageNow(k, m) == Stage(k, ds, mesh_attrs[m], meshes[m])

\* A call with the outcome again, made right after one with the outcome once,
\* returned the same result and left the context as the first call left it.
SameAgain(once, again) ==
    /\ again.exc = NoExc
    /\ again.ctx = once.ctx
    /\ again.res = once.res

\* Stage k is idempotent on the present context of the m-th mesh.
IdempotentAt(k, m) ==
    StageNow(k, m).exc = NoExc =>
        SameAgain(StageNow(k, m), Stage(k, ds, mesh_attrs[m], StageNow(k, m).ctx))

\* The latest stage result in ret_vals (the summary comes after it once
\* check_run has returned).
LatestAppended ==
    IF outcome = "returned" THEN ret_vals[Len(ret_vals) - 1] ELSE ret_vals[Len(ret_vals)]

\* Claim C21: check_run calls every stage twice in a row for each mesh and
\* appends the second call's result only.  Every stage is idempotent on the
\* mesh context: in every reachable context a second call right after the
\* first leaves the context as the first left it and returns an equal
\* result, so the appended result is the one a single call produced.
C21_CalledTwice ==
    /\ \A i \in DOMAIN log : i % 2 = 0 => log[i] = log[i - 1]
    /\ Len(ret_vals) = (Len(log) \div 2) + (IF outcome = "returned" THEN 1 ELSE 0)
    /\ \A m \in DOMAIN meshes : \A k \in DOMAIN YieldChecks :
           IdempotentAt(YieldChecks[k].digit, m)
    /\ ~(outcome = "raised" /\ call = 2)
    /\ (outcome = "running" /\ call = 2) =>
           /\ StageNow(YieldChecks[ci].digit, mi).exc = NoExc
           /\ StageNow(YieldChecks[ci].digit, mi).ctx = meshes[mi]
           /\ StageNow(YieldChecks[ci].digit, mi).res = dropped
    /\ (call = 1 /\ Len(log) > 0) => LatestAppended = dropped

\* check_run has appended the result of stage 3 for a mesh whose first calls
\* of stages 2 and 3 changed the context: nedges is derived and a node
\* coordinate that is no Dataset variable is listed; the appended result,
\* with a failing sub-check, is the one the first call returned.
C21_Witness ==
    /\ outcome = "running"
    /\ call = 1
    /\ Len(ret_vals) = 3
    /\ Derived(1, "nedges")
    /\ meshes[1]["node_coordinates"] = PyList(<<"nope">>)
    /\ ret_vals[3].score < ret_vals[3].out_of
    /\ ret_vals[3] = dropped

====
